---- MODULE Spec2Model ----
(***************************************************************************)
(* Model of the data preparation core of bertology:                        *)
(*   src/src/util.py                    datasplit                          *)
(*   src/src/experiments/cls_b2w_bert.py text_tranformation, dataprep      *)
(*   src/src/data/b2w.py                download_csv,                      *)
(*                                      get_recommendation_data,           *)
(*                                      cls_dataprep                       *)
(*                                                                         *)
(* Texts are sequences of one-character strings.  Two characters that are  *)
(* not ASCII are written by name: "INVQ" is the inverted question mark and *)
(* "ACIRC" is the capital A with circumflex (both occur in the character   *)
(* class of b2w.py line 118).                                              *)
(*                                                                         *)
(* Split sizes are floats in the code.  They are modelled as exact         *)
(* hundredths (a size of 0.15 is the integer 15, the literal 1 is One), so *)
(* int(_len * train_size) is (_len * train_size) \div One.  The rounding   *)
(* of IEEE doubles is not modelled.                                        *)
(***************************************************************************)
EXTENDS Integers, Sequences, FiniteSets, TLC

VARIABLES
    ntext,      \* SpecNorm: the raw text handed to the normaliser
    nout,       \* SpecNorm: the text column after the call
    nfun,       \* SpecNorm: which function produced nout (None before)
    data,       \* the DataFrame handed to datasplit / held by dataprep
    sizes,      \* <<train_size, test_size, val_size>> in hundredths
    rng,        \* state of numpy's process-global generator
    calls,      \* SpecSplit: one record per finished datasplit call
    pc,         \* SpecPipe: position of dataprep
    cfg,        \* SpecPipe: nrows and max_sentence_size
    storage,    \* SpecPipe: path -> file content (None when absent)
    io,         \* SpecPipe: the I/O operations performed so far, in order
    out,        \* SpecPipe: train_df, test_df, val_df once datasplit returned
    report,     \* SpecPipe: the label balance lines printed so far
    raised      \* SpecPipe: the exception that ended the run ("" if none)

vars == <<ntext, nout, nfun, data, sizes, rng, calls, pc, cfg, storage, io,
          out, report, raised>>

None == "None"

\* no frame: what train, test and val are when datasplit raised
NoFrame == [kind |-> "none", values |-> <<>>, rows |-> <<>>]

\* the variables of a specification that another specification leaves alone
PipeIdle ==
    /\ pc = "idle"
    /\ cfg = None
    /\ storage = None
    /\ io = <<>>
    /\ out = None
    /\ report = <<>>
    /\ raised = ""

NormIdle ==
    /\ ntext = <<>>
    /\ nout = <<>>
    /\ nfun = None

SplitIdle ==
    /\ data = NoFrame
    /\ sizes = <<0, 0, 0>>
    /\ rng = 0
    /\ calls = <<>>

\* ------------------------------------------------------------------------
\* Sequence helpers
\* ------------------------------------------------------------------------

Range(s) == {s[i] : i \in 1..Len(s)}

RECURSIVE SeqsUpTo(_, _)
SeqsUpTo(S, n) ==
    IF n = 0 THEN {<<>>}
    ELSE LET shorter == SeqsUpTo(S, n - 1)
         IN  shorter \cup {Append(s, x) : s \in shorter, x \in S}

RECURSIVE DropWhile(_, _)
DropWhile(s, S) ==
    IF s # <<>> /\ Head(s) \in S THEN DropWhile(Tail(s), S) ELSE s

\* ------------------------------------------------------------------------
\* Text normalisation (cls_b2w_bert.py 76-88, b2w.py 109-121)
\* ------------------------------------------------------------------------

UpperCase == <<"A", "B", "C", "D", "E", "F", "G", "H", "I", "J", "K", "L", "M",
               "N", "O", "P", "Q", "R", "S", "T", "U", "V", "W", "X", "Y", "Z",
               "ACIRC">>
LowerCase == <<"a", "b", "c", "d", "e", "f", "g", "h", "i", "j", "k", "l", "m",
               "n", "o", "p", "q", "r", "s", "t", "u", "v", "w", "x", "y", "z",
               "acirc">>

Digits == {"0", "1", "2", "3", "4", "5", "6", "7", "8", "9"}

\* str.strip() and str.split() without argument act on whitespace
Whitespace == {" ", "\t", "\n", "\r"}

NUM == <<"N", "U", "M">>

\* s.lower()
lower(s) ==
    [i \in 1..Len(s) |->
        IF \E k \in 1..Len(UpperCase) : UpperCase[k] = s[i]
        THEN LowerCase[CHOOSE k \in 1..Len(UpperCase) : UpperCase[k] = s[i]]
        ELSE s[i]]

RECURSIVE rstrip(_)
rstrip(s) ==
    IF s # <<>> /\ s[Len(s)] \in Whitespace
    THEN rstrip(SubSeq(s, 1, Len(s) - 1))
    ELSE s

\* s.strip()
strip(s) == rstrip(DropWhile(s, Whitespace))

\* re.sub(r"\d+", "NUM", s): every maximal run of digits becomes NUM
RECURSIVE sub_digits(_)
sub_digits(s) ==
    IF s = <<>> THEN <<>>
    ELSE IF Head(s) \in Digits
         THEN NUM \o sub_digits(DropWhile(s, Digits))
         ELSE <<Head(s)>> \o sub_digits(Tail(s))

\* the pattern NUM[.,]NUM matches at the head of s
MatchNumSepNum(s) ==
    /\ Len(s) >= 7
    /\ SubSeq(s, 1, 3) = NUM
    /\ s[4] \in {".", ","}
    /\ SubSeq(s, 5, 7) = NUM

\* re.sub(r"NUM[.,]NUM", "NUM", s): one left to right pass; after a match
\* the scan resumes behind the matched text, so the NUM just written is
\* never the start of the next match
RECURSIVE sub_num_sep_num(_)
sub_num_sep_num(s) ==
    IF s = <<>> THEN <<>>
    ELSE IF MatchNumSepNum(s)
         THEN NUM \o sub_num_sep_num(SubSeq(s, 8, Len(s)))
         ELSE <<Head(s)>> \o sub_num_sep_num(Tail(s))

\* the character classes of the punctuation pattern
PunctExperiment == {"?", ".", "!", ",", "INVQ"}
PunctB2W == {"?", ".", "!", ",", "ACIRC", "INVQ"}

\* re.sub(r"([?.!,...])", r" \1 ", s)
RECURSIVE sub_punct(_, _)
sub_punct(s, P) ==
    IF s = <<>> THEN <<>>
    ELSE IF Head(s) \in P
         THEN <<" ", Head(s), " ">> \o sub_punct(Tail(s), P)
         ELSE <<Head(s)>> \o sub_punct(Tail(s), P)

\* the class [" "] holds the double quote and the space
SpaceClass == {"\"", " "}

\* re.sub(r'[" "]+', " ", s)
RECURSIVE sub_spaces(_)
sub_spaces(s) ==
    IF s = <<>> THEN <<>>
    ELSE IF Head(s) \in SpaceClass
         THEN <<" ">> \o sub_spaces(DropWhile(s, SpaceClass))
         ELSE <<Head(s)>> \o sub_spaces(Tail(s))

\* the chain of lambdas applied to one text value
normalize(s, P) ==
    sub_spaces(sub_punct(sub_num_sep_num(sub_digits(strip(lower(s)))), P))

\* the longest prefix of s made of characters outside S
RECURSIVE TakeUntil(_, _)
TakeUntil(s, S) ==
    IF s = <<>> \/ Head(s) \in S THEN <<>>
    ELSE <<Head(s)>> \o TakeUntil(Tail(s), S)

\* s.split(): the whitespace separated tokens
RECURSIVE split(_)
split(s) ==
    LET t == DropWhile(s, Whitespace)
        w == TakeUntil(t, Whitespace)
    IN  IF t = <<>> THEN <<>>
        ELSE <<w>> \o split(SubSeq(t, Len(w) + 1, Len(t)))

\* A missing value (NaN, None).  A target is a string: "Yes", "No" or any
\* other raw value, NA when missing, and "1" and "0" for the numbers 1 and 0
\* the coercion writes.  A missing text is NAText.
NA == "NA"
NAText == <<NA>>

\* DataFrame.dropna() keeps the rows without a missing value
notna(row) == row.text # NAText /\ row.target # NA

\* ------------------------------------------------------------------------
\* DataFrames
\*
\* A frame is [kind, values, rows].  rows[i] is the content (text, target)
\* at position i.  values is the numpy array behind the index, the array
\* data.index.to_numpy() returns without copying.  A "range" frame is
\* indexed by a RangeIndex, whose labels and lookups are computed from the
\* range itself and whose array is only a cache; an "int64" frame is indexed
\* by the array (the index left by dropna, by a boolean mask or by .loc).
\* ------------------------------------------------------------------------

MaxRows == 3

DigitChar == <<"0", "1", "2", "3", "4", "5", "6", "7", "8", "9">>

iota(n) == [i \in 1..n |-> i - 1]

\* the labels of the index, in order (data.index)
labels(df) == IF df.kind = "range" THEN iota(Len(df.rows)) ELSE df.values

\* Index.get_indexer for one label: the position that holds it
get_indexer(df, label) ==
    IF df.kind = "range"
    THEN label + 1
    ELSE CHOOSE i \in 1..Len(df.values) : df.values[i] = label

\* data.loc[keys] for an array of labels
loc(df, keys) ==
    [kind   |-> "int64",
     values |-> keys,
     rows   |-> [i \in 1..Len(keys) |-> df.rows[get_indexer(df, keys[i])]]]

\* data[mask]: the rows whose mask is TRUE, under their labels
RECURSIVE keep(_, _)
keep(s, mask) ==
    IF s = <<>> THEN <<>>
    ELSE (IF Head(mask) THEN <<Head(s)>> ELSE <<>>) \o keep(Tail(s), Tail(mask))

getitem_mask(df, mask) ==
    [kind |-> "int64", values |-> keep(labels(df), mask), rows |-> keep(df.rows, mask)]

\* ------------------------------------------------------------------------
\* The two normalisers, on a whole frame
\* ------------------------------------------------------------------------

\* data.dropna(inplace=True): the surviving rows keep their labels, in a
\* new array index
dropna(df) == getitem_mask(df, [i \in 1..Len(df.rows) |-> notna(df.rows[i])])

\* data.text = data.text.apply(f)
apply_text(df, P) ==
    [df EXCEPT !.rows = [i \in 1..Len(df.rows) |->
                            [df.rows[i] EXCEPT !.text = normalize(@, P)]]]

\* cls_b2w_bert.text_tranformation(data)
text_tranformation(df) == apply_text(dropna(df), PunctExperiment)

\* b2w.cls_dataprep(data, drop_na): without drop_na a missing text reaches
\* s.lower() and the call raises
cls_dataprep(df, drop_na) ==
    LET d == IF drop_na THEN dropna(df) ELSE df
    IN  IF \E i \in 1..Len(d.rows) : d.rows[i].text = NAText
        THEN "AttributeError"
        ELSE apply_text(d, PunctB2W)

\* ------------------------------------------------------------------------
\* SpecNorm: one of the two normalisers is applied to a frame of one row
\* ------------------------------------------------------------------------

MaxLen == 3

NormAlphabet == {"A", "1", ".", ",", " "}

TextDogs ==
    <<"I", " ", "h", "a", "v", "e", " ", "2", " ", "d", "o", "g", "s", ".">>

TextCosts ==
    <<"I", "t", " ", "c", "o", "s", "t", "s", " ", "3", ".", "5", "0", "0",
      ",", "0", "0", " ", "t", "o", "d", "a", "y", ".">>

TextBoy ==
    <<"a", " ", "b", "o", "y", ".">>

NormInputs == SeqsUpTo(NormAlphabet, MaxLen) \cup {TextDogs, TextCosts, TextBoy}

InitNorm ==
    /\ ntext \in NormInputs
    /\ nout = <<>>
    /\ nfun = None
    /\ SplitIdle
    /\ PipeIdle

OneRow(t) == [kind |-> "range", values |-> iota(1), rows |-> <<[text |-> t, target |-> "1"]>>]

CallTextTranformation ==
    /\ nfun = None
    /\ nout' = text_tranformation(OneRow(ntext)).rows[1].text
    /\ nfun' = "text_tranformation"
    /\ UNCHANGED <<ntext, data, sizes, rng, calls, pc, cfg, storage, io, out,
                   report, raised>>

CallClsDataprep ==
    /\ nfun = None
    /\ \E drop_na \in BOOLEAN :
          nout' = cls_dataprep(OneRow(ntext), drop_na).rows[1].text
    /\ nfun' = "cls_dataprep"
    /\ UNCHANGED <<ntext, data, sizes, rng, calls, pc, cfg, storage, io, out,
                   report, raised>>

NextNorm == CallTextTranformation \/ CallClsDataprep

SpecNorm == InitNorm /\ [][NextNorm]_vars

\* the number of tokens of s equal to t
Count(toks, t) == Cardinality({i \in 1..Len(toks) : toks[i] = t})

\* C6: "I have 2 dogs." is normalised to exactly "i have num dogs ." and
\* "a boy." to exactly "a boy .", with no leading or trailing whitespace.
C6_DogsExample ==
    nfun # None =>
        /\ ntext = TextDogs =>
             nout = <<"i", " ", "h", "a", "v", "e", " ", "n", "u", "m", " ",
                      "d", "o", "g", "s", " ", ".">>
        /\ ntext = TextBoy => nout = <<"a", " ", "b", "o", "y", " ", ".">>

\* C7: in the normalised "It costs 3.500,00 today." the number is one NUM
\* token, no "," token and no second NUM is left of it, and the only "."
\* token is the last token.
C7_NumberCollapsed ==
    (nfun # None /\ ntext = TextCosts) =>
        LET toks == split(nout)
        IN  /\ Count(toks, NUM) = 1
            /\ Count(toks, <<",">>) = 0
            /\ Count(toks, <<".">>) = 1
            /\ toks[Len(toks)] = <<".">>

\* ------------------------------------------------------------------------
\* numpy's process-global generator (np.random)
\*
\* The generator state is a number below RngStates: digits + RngDigits * tick,
\* with digits below RngDigits = MaxRows! and tick below MaxRows.  A draw
\* random_interval(max) returns digits % (max + 1), moves that digit to the
\* top of the digits and advances the tick.  Every permutation of up to
\* MaxRows items is the shuffle of some state, and a shuffle of 2..MaxRows
\* items always leaves the generator in another state.
\* ------------------------------------------------------------------------

RECURSIVE Factorial(_)
Factorial(n) == IF n <= 1 THEN 1 ELSE n * Factorial(n - 1)

RngDigits == Factorial(MaxRows)

RngStates == RngDigits * MaxRows

random_interval(s, max) ==
    LET digits == s % RngDigits
        tick   == s \div RngDigits
        value  == digits % (max + 1)
        rolled == (digits \div (max + 1)) + value * (RngDigits \div (max + 1))
    IN  [value |-> value,
         state |-> (rolled % RngDigits) + RngDigits * ((tick + 1) % MaxRows)]

swap(x, i, j) == [x EXCEPT ![i] = x[j], ![j] = x[i]]

\* RandomState.shuffle: for i in reversed(range(1, n)):
\*                          j = random_interval(i); x[i], x[j] = x[j], x[i]
\* (positions are 1-based here).  Returns the array and the generator state.
RECURSIVE shuffle_from(_, _, _)
shuffle_from(x, s, i) ==
    IF i < 1 THEN [array |-> x, state |-> s]
    ELSE LET d == random_interval(s, i)
         IN  shuffle_from(swap(x, i + 1, d.value + 1), d.state, i - 1)

shuffle(x, s) == shuffle_from(x, s, Len(x) - 1)

\* ------------------------------------------------------------------------
\* util.datasplit
\* ------------------------------------------------------------------------

\* the literal 1 of "np.sum(...) > 1", in hundredths
One == 100

\* np.sum((train_size, test_size, val_size)) > 1
invalid_split_size_ge(tr, te, va) == tr + te + va >= One

invalid_split_size_never(tr, te, va) == FALSE

invalid_split_size(tr, te, va) == tr + te + va > One

\* int(_len * size)
boundary_ceil(len, size) == (len * size + One - 1) \div One

boundary(len, size) == (len * size) \div One

\* np.split(indexes, [_train, _test])
Min(a, b) == IF a <= b THEN a ELSE b

\* x[a:b] for 0 <= a, 0 <= b: the bounds are clipped to the length
slice(x, a, b) == SubSeq(x, Min(a, Len(x)) + 1, Min(b, Len(x)))

np_split_gap(x, a, b) ==
    <<slice(x, 0, a), slice(x, a, b), slice(x, b + 1, Len(x))>>

np_split(x, a, b) ==
    <<slice(x, 0, a), slice(x, a, b), slice(x, b, Len(x))>>

\* The whole call.  indexes is the index's own array (to_numpy does not
\* copy), so the in-place shuffle rewrites df.values; the lookups of .loc
\* then run against the frame as the shuffle left it.
datasplit(df, tr, te, va, s) ==
    IF invalid_split_size(tr, te, va)
    THEN [raised |-> "ValueError", data |-> df, rng |-> s,
          train |-> NoFrame, test |-> NoFrame, val |-> NoFrame]
    ELSE LET sh      == shuffle(df.values, s)
             indexes == sh.array
             df1     == [df EXCEPT !.values = indexes]
             _len    == Len(indexes)
             _train  == boundary(_len, tr)
             _test   == boundary(_len, tr + te)
             parts   == np_split(indexes, _train, _test)
         IN  [raised |-> "", data |-> df1, rng |-> sh.state,
              train |-> loc(df1, parts[1]),
              test  |-> loc(df1, parts[2]),
              val   |-> loc(df1, parts[3])]

\* ------------------------------------------------------------------------
\* SpecSplit: datasplit called on a frame, from any generator state, any
\* number of times up to MaxCalls; the caller may seed the generator.
\* ------------------------------------------------------------------------

MaxCalls == 2
MaxSeed == 1

\* the sizes a caller passes, in hundredths
SizeValues == {0, 15, 50, 60}
SizeTriples == SizeValues \X SizeValues \X SizeValues

\* the content first loaded under label l
Row(l) ==
    [text |-> <<"r", DigitChar[l + 1]>>, target |-> IF l % 2 = 0 THEN "0" ELSE "1"]

\* a freshly loaded frame of n rows
RangeFrame(n) ==
    [kind |-> "range", values |-> iota(n), rows |-> [i \in 1..n |-> Row(i - 1)]]

\* the frames handed to datasplit: freshly loaded ones, and ones left by
\* dropping rows of a loaded frame (dropna, the length filter)
SplitFrames ==
    {RangeFrame(n) : n \in 0..MaxRows}
    \cup {getitem_mask(RangeFrame(MaxRows), m) : m \in [1..MaxRows -> BOOLEAN]}

InitSplit ==
    /\ data \in SplitFrames
    /\ sizes \in SizeTriples
    /\ rng \in 0..(RngDigits - 1)
    /\ calls = <<>>
    /\ PipeIdle
    /\ NormIdle

\* np.random.seed(n), called by whoever wants a repeatable run
Seed(n) ==
    /\ Len(calls) < MaxCalls
    /\ rng # n % RngDigits
    /\ rng' = n % RngDigits
    /\ UNCHANGED <<ntext, nout, nfun, data, sizes, calls, pc, cfg, storage, io,
                   out, report, raised>>

\* train, test, val = datasplit(data, *sizes)
SplitCall ==
    /\ Len(calls) < MaxCalls
    /\ LET r == datasplit(data, sizes[1], sizes[2], sizes[3], rng)
       IN  /\ data' = r.data
           /\ rng' = r.rng
           /\ calls' = Append(calls, [data_in |-> data, rng_in |-> rng, ret |-> r])
    /\ UNCHANGED <<ntext, nout, nfun, sizes, pc, cfg, storage, io, out, report,
                   raised>>

NextSplit ==
    \/ \E n \in 0..MaxSeed : Seed(n)
    \/ SplitCall

SpecSplit == InitSplit /\ [][NextSplit]_vars

\* ------------------------------------------------------------------------
\* Properties of datasplit (SpecSplit)
\* ------------------------------------------------------------------------

Returned(c) == c.ret.raised = ""

SizeSum == sizes[1] + sizes[2] + sizes[3]

\* the content a frame holds under a label
ContentAt(df, l) == df.rows[CHOOSE i \in 1..Len(df.rows) : labels(df)[i] = l]

\* k = floor(num / One)
IsFloor(k, num) == k * One <= num /\ num < (k + 1) * One

\* C1: the index sets of train, test and val are pairwise disjoint and their
\* union is the index set of the input, whatever the shuffle produced.
C1_DisjointAndCovering ==
    \A k \in 1..Len(calls) :
        Returned(calls[k]) =>
            LET c  == calls[k]
                tr == Range(labels(c.ret.train))
                te == Range(labels(c.ret.test))
                va == Range(labels(c.ret.val))
            IN  /\ tr \cap te = {}
                /\ tr \cap va = {}
                /\ te \cap va = {}
                /\ tr \cup te \cup va = Range(labels(c.data_in))
                /\ Len(c.ret.train.rows) + Len(c.ret.test.rows)
                     + Len(c.ret.val.rows) = Len(c.data_in.rows)

\* a call that returned three non-empty splits in an order that is not the
\* input's
C1_Witness ==
    \E k \in 1..Len(calls) :
        /\ Returned(calls[k])
        /\ calls[k].ret.train.rows # <<>>
        /\ calls[k].ret.test.rows # <<>>
        /\ calls[k].ret.val.rows # <<>>
        /\ calls[k].ret.data.values # calls[k].data_in.values

C3_InvalidSizeRaisesFirst ==
    \A k \in 1..Len(calls) :
        LET c == calls[k]
        IN  /\ SizeSum > One =>
                /\ c.ret.raised = "ValueError"
                /\ c.ret.data = c.data_in
                /\ c.ret.rng = c.rng_in
                /\ c.ret.train = NoFrame /\ c.ret.test = NoFrame /\ c.ret.val = NoFrame
            /\ SizeSum <= One => c.ret.raised = ""

\* the call datasplit(data, 0.6, 0.5, 0.0) on a frame with rows has raised
C3_Witness ==
    \E k \in 1..Len(calls) :
        /\ sizes = <<60, 50, 0>>
        /\ calls[k].data_in.rows # <<>>
        /\ calls[k].ret.raised = "ValueError"

\* C4: two runs of the split on the same frame with the same sizes, each
\* entered with the generator in the state the same seed puts it in, return
\* the same train, test and val index sequences.
C4_SameSeedSameSplit ==
    \A j, k \in 1..Len(calls) :
        (/\ Returned(calls[j])
         /\ Returned(calls[k])
         /\ calls[j].rng_in = calls[k].rng_in)
        => /\ labels(calls[j].ret.train) = labels(calls[k].ret.train)
           /\ labels(calls[j].ret.test) = labels(calls[k].ret.test)
           /\ labels(calls[j].ret.val) = labels(calls[k].ret.val)

\* C5: after datasplit returns, the input frame has the index sequence and
\* the contents it had before the call, and every row of train, test and
\* val has the content the input held under that row's index.
C5_InputNotMutated ==
    \A k \in 1..Len(calls) :
        Returned(calls[k]) =>
            LET c == calls[k]
            IN  /\ labels(c.ret.data) = labels(c.data_in)
                /\ c.ret.data.rows = c.data_in.rows
                /\ \A part \in {c.ret.train, c.ret.test, c.ret.val} :
                     \A i \in 1..Len(part.rows) :
                        part.rows[i] = ContentAt(c.data_in, labels(part)[i])

\* ------------------------------------------------------------------------
\* b2w: the corpus and its acquisition
\* ------------------------------------------------------------------------

\* the first n items of s (s[:n])
Take(s, n) == SubSeq(s, 1, Min(n, Len(s)))

\* download_csv(path, nrows=nrows): with nrows > 0 the first nrows rows are
\* read and written to path, otherwise the whole file is copied
download_csv(remote, nrows) == IF nrows > 0 THEN Take(remote, nrows) ELSE remote

\* the two lambdas that turn the target into a number
coerce_target(t) == IF t = "Yes" THEN "1" ELSE IF t = "No" THEN "0" ELSE t

\* get_recommendation_data(path): the two columns of the csv, renamed, the
\* target coerced; read_csv gives the frame a RangeIndex
get_recommendation_data(file) ==
    [kind   |-> "range",
     values |-> iota(Len(file)),
     rows   |-> [i \in 1..Len(file) |->
                    [text |-> file[i].text, target |-> coerce_target(file[i].target)]]]

\* gcp_util.exists_on_storage(path): is there a file at path
exists_on_storage(st, path) == path \in st.present

\* ------------------------------------------------------------------------
\* cls_b2w_bert.dataprep, step by step
\* ------------------------------------------------------------------------

\* dataset = dataset[ntokens <= max_sentence_size]
length_filter(df, max_sentence_size) ==
    getitem_mask(df, [i \in 1..Len(df.rows) |->
                         Len(split(df.rows[i].text)) <= max_sentence_size])

\* the targets in a frame, as value_counts sees them
target_values(df) == {df.rows[i].target : i \in 1..Len(df.rows)}

\* vc[0] and vc[1] of vc = df.target.value_counts(normalize=True): the
\* lookup raises when no row has target 0 or no row has target 1 (a
\* KeyError; an IndexError when the counts hold no integer label at all)
vc_raises(df) ==
    IF {"0", "1"} \subseteq target_values(df) THEN "" ELSE "KeyError"

target_count(df, t) == Cardinality({i \in 1..Len(df.rows) : df.rows[i].target = t})

\* what the three print lines of a stage show
stage_report(name, df) ==
    [name  |-> name,
     shape |-> Len(df.rows),
     zeros |-> target_count(df, "0"),
     ones  |-> target_count(df, "1")]

MaxSentence == 3
PipeRows == 2
BalancedRows == 6

ShortText == <<"O", "k", " ", "1", ".">>
LongText == <<"N", "o", ",", " ", "2", ".", "5", " ", "s", "t", "a", "r", "s", "!">>

RawRecords ==
    {[text |-> ShortText, target |-> "Yes"],
     [text |-> LongText, target |-> "No"],
     [text |-> NAText, target |-> "Yes"],
     [text |-> ShortText, target |-> "Maybe"]}

\* a corpus whose every pair of rows holds both labels
BalancedCorpus ==
    [i \in 1..BalancedRows |->
        [text |-> ShortText, target |-> IF i % 2 = 1 THEN "Yes" ELSE "No"]]

PipeCorpora == SeqsUpTo(RawRecords, PipeRows) \cup {BalancedCorpus}

\* the configurations of the "data" section: sizes in hundredths
PipeSizeTriples ==
    {<<70, 15, 15>>, <<60, 50, 0>>, <<50, 50, 0>>, <<34, 33, 33>>, <<50, 15, 15>>}

PipeConfigs == [nrows : {0, 1}, max_sentence_size : {0, MaxSentence}]

NoFile == <<>>

\* the destination is absent, or holds what an earlier run of the same
\* configuration fetched
InitPipe ==
    /\ pc = "start"
    /\ cfg \in PipeConfigs
    /\ sizes \in PipeSizeTriples
    /\ \E remote \in PipeCorpora, found \in BOOLEAN :
          storage = [remote  |-> remote,
                     present |-> IF found THEN {"csv_dataset"} ELSE {},
                     dataset |-> IF found THEN download_csv(remote, cfg.nrows)
                                 ELSE NoFile,
                     train   |-> NoFile,
                     test    |-> NoFile,
                     val     |-> NoFile]
    /\ rng \in 0..(RngDigits - 1)
    /\ data = NoFrame
    /\ out = [train |-> NoFrame, test |-> NoFrame, val |-> NoFrame]
    /\ io = <<>>
    /\ report = <<>>
    /\ raised = ""
    /\ calls = <<>>
    /\ NormIdle

\* lines 130-135 with the branch inverted: fetch when the file is there
CheckExistsInverted ==
    /\ pc = "start"
    /\ IF exists_on_storage(storage, "csv_dataset")
       THEN io' = Append(io, "exists:True") /\ pc' = "download"
       ELSE io' = Append(io, "exists:False") /\ pc' = "load"
    /\ UNCHANGED <<ntext, nout, nfun, data, sizes, rng, calls, cfg, storage,
                   out, report, raised>>

\* line 130: if gcp_util.exists_on_storage(csv_dataset)
CheckExists ==
    /\ pc = "start"
    /\ IF exists_on_storage(storage, "csv_dataset")
       THEN io' = Append(io, "exists:True") /\ pc' = "load"
       ELSE io' = Append(io, "exists:False") /\ pc' = "download"
    /\ UNCHANGED <<ntext, nout, nfun, data, sizes, rng, calls, cfg, storage,
                   out, report, raised>>

\* line 134: b2w.download_csv(storage_dataset, nrows=nrows)
Download ==
    /\ pc = "download"
    /\ io' = Append(io, "fetch")
    /\ storage' = [storage EXCEPT
                      !.present = @ \cup {"csv_dataset"},
                      !.dataset = download_csv(storage.remote, cfg.nrows)]
    /\ pc' = "load"
    /\ UNCHANGED <<ntext, nout, nfun, data, sizes, rng, calls, cfg, out, report,
                   raised>>

\* line 139: dataset = b2w.get_recommendation_data(storage_dataset)
Load ==
    /\ pc = "load"
    /\ io' = Append(io, "load")
    /\ data' = get_recommendation_data(storage.dataset)
    /\ pc' = "transform"
    /\ UNCHANGED <<ntext, nout, nfun, sizes, rng, calls, cfg, storage, out,
                   report, raised>>

\* line 140: dataset = text_tranformation(dataset)
Transform ==
    /\ pc = "transform"
    /\ data' = text_tranformation(data)
    /\ pc' = "filter"
    /\ UNCHANGED <<ntext, nout, nfun, sizes, rng, calls, cfg, storage, io, out,
                   report, raised>>

\* lines 143-147: the length filter, when max_sentence_size is not 0
Filter ==
    /\ pc = "filter"
    /\ data' = IF cfg.max_sentence_size # 0
               THEN length_filter(data, cfg.max_sentence_size)
               ELSE data
    /\ pc' = "report"
    /\ UNCHANGED <<ntext, nout, nfun, sizes, rng, calls, cfg, storage, io, out,
                   report, raised>>

\* lines 150-154: shape and label balance of the whole dataset
ReportDataset ==
    /\ pc = "report"
    /\ IF vc_raises(data) # ""
       THEN raised' = vc_raises(data) /\ pc' = "failed" /\ report' = report
       ELSE /\ report' = Append(report, stage_report("dataset", data))
            /\ pc' = "split"
            /\ raised' = raised
    /\ UNCHANGED <<ntext, nout, nfun, data, sizes, rng, calls, cfg, storage, io,
                   out>>

\* lines 156-157: train_df, test_df, val_df = util.datasplit(dataset, ...)
Split ==
    /\ pc = "split"
    /\ LET r == datasplit(data, sizes[1], sizes[2], sizes[3], rng)
       IN  /\ data' = r.data
           /\ rng' = r.rng
           /\ out' = [train |-> r.train, test |-> r.test, val |-> r.val]
           /\ raised' = r.raised
           /\ pc' = IF r.raised # "" THEN "failed" ELSE "train"
    /\ UNCHANGED <<ntext, nout, nfun, sizes, calls, cfg, storage, io, report>>

\* One block of lines 159-181: df.to_csv(path, index=False), then the
\* prints, the last of which looks up vc[0] and vc[1].
Save(name, df, next) ==
    /\ pc = name
    /\ io' = Append(io, "write:" \o name)
    /\ storage' = [storage EXCEPT !.present = @ \cup {"csv_" \o name},
                                  ![name] = df.rows]
    /\ IF vc_raises(df) # ""
       THEN raised' = vc_raises(df) /\ pc' = "failed" /\ report' = report
       ELSE /\ report' = Append(report, stage_report(name, df))
            /\ pc' = next
            /\ raised' = raised
    /\ UNCHANGED <<ntext, nout, nfun, data, sizes, rng, calls, cfg, out>>

\* lines 159-165
SaveTrain == Save("train", out.train, "test")

\* lines 167-173
SaveTest == Save("test", out.test, "val")

\* lines 175-181
SaveVal == Save("val", out.val, "done")

NextPipe ==
    \/ CheckExists
    \/ Download
    \/ Load
    \/ Transform
    \/ Filter
    \/ ReportDataset
    \/ Split
    \/ SaveTrain
    \/ SaveTest
    \/ SaveVal

SpecPipe == InitPipe /\ [][NextPipe]_vars

\* ------------------------------------------------------------------------
\* Properties of dataprep (SpecPipe)
\* ------------------------------------------------------------------------

\* the places of an operation in the I/O log
Positions(e) == {i \in 1..Len(io) : io[i] = e}

ExistsChecks == Positions("exists:True") \cup Positions("exists:False")

IsWrite(e) == e \in {"write:train", "write:test", "write:val"}

Writes == SelectSeq(io, IsWrite)

\* C8: a fetch is preceded by the existence check; when the check found the
\* destination, the run fetches zero times; when it did not, the run fetches
\* exactly once, before the raw data is loaded.
C8_FetchOnlyWhenAbsent ==
    /\ \A f \in Positions("fetch") : \E c \in ExistsChecks : c < f
    /\ Cardinality(ExistsChecks) <= 1
    /\ Positions("exists:True") # {} => Positions("fetch") = {}
    /\ (Positions("exists:False") # {} /\ pc \notin {"start", "download"}) =>
          Cardinality(Positions("fetch")) = 1
    /\ \A l \in Positions("load") :
          /\ \E c \in ExistsChecks : c < l
          /\ \A f \in Positions("fetch") : f < l

\* a run that found the destination absent, fetched and went on to load
C8_Witness ==
    /\ Positions("exists:False") # {}
    /\ Positions("fetch") # {}
    /\ Positions("load") # {}

\* C9 as stated: when the invalid-split-size error is raised, no existence
\* check, no fetch, no load and no write has been performed.
C9_InvalidSizeBeforeAnyIO == raised = "ValueError" => io = <<>>

\* C9 amended: a run whose sizes sum to more than 1 never writes a split
\* and never completes; the invalid-split-size error is raised only for
\* such sizes, at the split step, after the existence check, the fetch (if
\* and only if the destination was absent) and the load of the raw data.
C9_InvalidSizeAtSplitStep ==
    /\ SizeSum > One => (Writes = <<>> /\ pc # "done" /\ pc # "train")
    /\ raised = "ValueError" =>
          /\ SizeSum > One
          /\ pc = "failed"
          /\ out.train = NoFrame /\ out.test = NoFrame /\ out.val = NoFrame
          /\ Cardinality(ExistsChecks) = 1
          /\ Cardinality(Positions("load")) = 1
          /\ (Positions("fetch") # {} <=> Positions("exists:False") # {})
          /\ Writes = <<>>

\* a run that fetched, loaded and then failed on its sizes
C9_Witness ==
    /\ raised = "ValueError"
    /\ Positions("fetch") # {}
    /\ Positions("load") # {}

\* C10: a run whose sizes sum to at most 1 raises nothing; its writes are
\* train, test, val in that order, each after the split step; once done it
\* has written all three and reported the dataset and each split.
C10_RunCompletes ==
    SizeSum <= One =>
        /\ raised = ""
        /\ \E n \in 0..3 : Writes = SubSeq(<<"write:train", "write:test", "write:val">>, 1, n)
        /\ Writes # <<>> => out.train # NoFrame
        /\ pc = "done" =>
              /\ Writes = <<"write:train", "write:test", "write:val">>
              /\ [i \in 1..Len(report) |-> report[i].name]
                    = <<"dataset", "train", "test", "val">>

====
